---- MODULE Spec2Model ----
(***************************************************************************)
(* typelense: the diagnostic collection pipeline                           *)
(* (TypeScriptErrorCollector, src/collectors/ts-error-collector.ts) and    *)
(* the monorepo detection orchestrator (detectMonorepo,                    *)
(* src/detectors/index.ts).                                                *)
(*                                                                         *)
(* The collector is modelled at the granularity of the JavaScript event    *)
(* loop: one action is the code that runs between two suspension points of *)
(* the async function collect.  A continuation queued by `await` of an     *)
(* already settled promise is a microtask; the setImmediate callback and a *)
(* SIGINT listener are macrotasks, which run only when no microtask is     *)
(* pending.                                                                *)
(***************************************************************************)
EXTENDS Integers, Sequences, FiniteSets, TLC

\* ------------------------------------------------------------------ bounds
MaxUnits == 3          \* packages of one package list
MaxDiags == 2          \* raw diagnostics of one unit
MaxReuseUnits == 2     \* packages of a list, when the collector is used again
MaxOverlapUnits == 2   \* packages of a list, when invocations overlap
MaxCustom == 2         \* custom detectors passed to detectMonorepo
MaxMembers == 2        \* member directories under a scan root
MaxConfigFiles == 2    \* configuration files beside package.json at a root
MaxRecords == 2        \* records handed to the report generator
MaxFieldLen == 1       \* characters of a record's text field
MaxLines == 2          \* lines of a source file
MaxLineLen == 2        \* characters of a line, its line break included

\* ------------------------------------------------------- inputs (collector)
\* Package names, in the order the package list keeps them.
AllNames == <<"a", "b", "c", "d", "e">>

\* What the file system and the TypeScript compiler hold for one unit:
\*   absent       no tsconfig.json at the unit's root
\*   readError    ts.readConfigFile reports configFile.error
\*   configErrors ts.parseJsonConfigFileContent reports n >= 1 errors
\*   checkThrows  parsing the configuration, creating the program, asking
\*                for its diagnostics or normalizing the first of them
\*                throws: an exception before any id is taken
\*   checked      the program yields n raw diagnostics; fault = j >= 2 when
\*                normalizing the j-th of them throws (the map callback's
\*                path.relative(process.cwd(), ...) or category lookup
\*                raising), 0 when none does
UnitShapes ==
    [kind : {"absent", "readError", "checkThrows"}, n : {0}, fault : {0}]
    \cup [kind : {"configErrors"}, n : 1..MaxDiags, fault : {0}]
    \cup {s \in [kind : {"checked"}, n : 0..MaxDiags, fault : 0..MaxDiags] :
            s.fault <= s.n /\ s.fault # 1}

Unit(nm, s) == [name |-> nm, kind |-> s.kind, n |-> s.n, fault |-> s.fault]

\* The scan root as a unit (collect's branch for an empty package list):
\* every shape when the run is about the root, one beside a package list.
RootShapes(pkgs) ==
    IF pkgs = <<>> THEN UnitShapes
    ELSE {[kind |-> "checked", n |-> 1, fault |-> 0]}
RootUnits(pkgs) == {Unit("root", s) : s \in RootShapes(pkgs)}

\* Shapes whose processing never throws: no tsconfig.json, or one diagnostic.
QuietShapes ==
    {s \in UnitShapes : s.kind = "absent" \/ (s.kind = "checked" /\ s.fault = 0 /\ s.n = 1)}

\* monorepoInfo.packages: distinct packages, named in list order, at most
\* max of them, each of one of the shapes.
RECURSIVE ListsFrom(_, _, _)
ListsFrom(k, max, shapes) ==
    IF k > max THEN {<<>>}
    ELSE LET rest == ListsFrom(k + 1, max, shapes)
         IN  rest \cup {<<Unit(AllNames[k], s)>> \o r : s \in shapes, r \in rest}
PackageLists == ListsFrom(1, MaxUnits, UnitShapes)
ReuseLists == ListsFrom(1, MaxReuseUnits, UnitShapes)
OverlapLists == ListsFrom(1, MaxOverlapUnits, QuietShapes)

\* --------------------------------------------------------------- variables
VARIABLES
    errorIdCounter,   \* this.errorIdCounter
    interrupted,      \* this.interrupted
    listeners,        \* invocations whose interruptHandler is on SIGINT
    pc,               \* per invocation: idle, yield, awaitUnit, done
    packages,         \* per invocation: monorepoInfo.packages
    rootUnit,         \* per invocation: what lies at rootPath
    i,                \* per invocation: the loop index (0-based)
    errors,           \* per invocation: result of the awaited collectFromPath
    rejected,         \* per invocation: the awaited collectFromPath promise is rejected
    allErrors,        \* per invocation: allErrors
    outcome,          \* per invocation: none, returned, interrupted, callbackError
    checked,          \* per invocation: names of the units whose type-check began
    sigAt,            \* per invocation: 0, or k when SIGINT set the flag before unit k's collectFromPath
    firstId,          \* per invocation: 0, or the first id it assigned
    overlapped,       \* invocations that were in progress together with another one
    prev,             \* how the invocation before the current one ended (kept by ReuseSpec)
    fs,               \* detectMonorepo: what the scan root holds
    customDetectors,  \* detectMonorepo: customDetectors
    dpc,              \* detectMonorepo: idle, loop, done
    detectorIdx,      \* detectMonorepo: position in `detectors` (1-based)
    detectCalls,      \* detectMonorepo: the calls of detect, in order
    getPackagesCalls, \* detectMonorepo: the calls of getPackages, in order
    info,             \* detectMonorepo: the MonorepoInfo returned
    detectOutcome,    \* detectMonorepo: none, returned, raised
    tsvPc,            \* TsvGenerator.generate: idle, written
    tsvErrors,        \* TsvGenerator.generate: errors
    tsvContent,       \* TsvGenerator.generate: the content written
    cliPc,            \* cli: idle, detecting, collecting, writing, exited
    cliInterrupted,   \* cli: `interrupted`
    activeSpinner,    \* cli: `activeSpinner` is set
    cliRoot,          \* cli: what targetDir holds
    outputPath,       \* cli: outputPath
    cliInfo,          \* cli: monorepoInfo
    cliErrors,        \* cli: errors
    cliError,         \* cli: the message of the error the catch block got
    cliEnded,         \* cli: none, completed, sigint, failure
    exitCode          \* cli: the code the process ends with

collectorVars ==
    <<errorIdCounter, interrupted, listeners, pc, packages, rootUnit, i, errors,
      rejected, allErrors, outcome, checked, sigAt, firstId, overlapped, prev>>

detectorVars ==
    <<fs, customDetectors, dpc, detectorIdx, detectCalls, getPackagesCalls, info,
      detectOutcome>>

VARIABLES
    fmtPc,            \* formatDiagnostics: idle, done
    diagnostics,      \* the raw diagnostics it was given
    formatted         \* the records it returned

generatorVars == <<tsvPc, tsvErrors, tsvContent>>

cliVars ==
    <<cliPc, cliInterrupted, activeSpinner, cliRoot, outputPath, cliInfo, cliErrors,
      cliError, cliEnded, exitCode>>

formatVars == <<fmtPc, diagnostics, formatted>>

vars == <<collectorVars, detectorVars, generatorVars, cliVars, formatVars>>

Inv == {1, 2}

\* ------------------------------------------------- formatDiagnostics et al.
\* `++this.errorIdCounter`
NextId(counter) == counter + 1

RECURSIVE MapDiagnostics(_, _, _, _)
\* diagnostics.map(...) from raw diagnostic k on; acc is the array built so far.
\* The callback throws at raw diagnostic unit.fault, before taking its id.
MapDiagnostics(k, unit, counter, acc) ==
    IF k > unit.n THEN [threw |-> FALSE, errors |-> acc, counter |-> counter]
    ELSE IF unit.fault = k THEN [threw |-> TRUE, errors |-> <<>>, counter |-> counter]
    ELSE MapDiagnostics(k + 1, unit, NextId(counter),
            Append(acc, [id |-> NextId(counter), packageName |-> unit.name, diag |-> k]))

FormatDiagnostics(unit, counter) == MapDiagnostics(1, unit, counter, <<>>)

FindTsConfig(unit) == unit.kind # "absent"

CollectErrorsFromProject(unit, counter) ==
    CASE unit.kind = "readError" -> [threw |-> TRUE, errors |-> <<>>, counter |-> counter]
      [] unit.kind = "checkThrows" -> [threw |-> TRUE, errors |-> <<>>, counter |-> counter]
      [] unit.kind = "configErrors" -> FormatDiagnostics(unit, counter)
      [] unit.kind = "checked" -> FormatDiagnostics(unit, counter)

SkipsOnEntryNever(intr) == FALSE
\* `if (this.interrupted) return []` on entry to collectFromPath (and again
\* inside its try block, with nothing in between that can set the flag).
SkipsOnEntry(intr) == intr

AbsentResultTakesId(counter) ==
    [errors |-> <<>>, counter |-> counter + 1, started |-> FALSE, escaped |-> FALSE]
\* `if (!tsconfigPath) { console.warn(...); return [] }`
AbsentResult(counter) ==
    [errors |-> <<>>, counter |-> counter, started |-> FALSE, escaped |-> FALSE]

EscapesUncaught(threw) == threw
\* `catch (error) { ...; return [] }`: whether what the try block threw
\* leaves collectFromPath.
Escapes(threw) == FALSE

\* collectFromPath: the records, the counter afterwards, whether the unit's
\* type-check (collectErrorsFromProject) was started, and whether an
\* exception leaves the function.
CollectFromPath(unit, counter, intr) ==
    IF SkipsOnEntry(intr)
    THEN [errors |-> <<>>, counter |-> counter, started |-> FALSE, escaped |-> FALSE]
    ELSE IF ~FindTsConfig(unit)
    THEN AbsentResult(counter)
    ELSE LET r == CollectErrorsFromProject(unit, counter)
         IN  IF r.threw
             THEN [errors |-> <<>>, counter |-> r.counter, started |-> TRUE,
                   escaped |-> Escapes(r.threw)]
             ELSE [errors |-> r.errors, counter |-> r.counter, started |-> TRUE,
                   escaped |-> FALSE]

PushFront(all, errs) == errs \o all
\* `allErrors.push(...errors)`
Push(all, errs) == all \o errs

\* ------------------------------------------------------------------ collect
NoUnit == [name |-> "root", kind |-> "absent", n |-> 0, fault |-> 0]

CollectorInit ==
    /\ errorIdCounter = 0
    /\ interrupted = FALSE
    /\ listeners = {}
    /\ pc = [v \in Inv |-> "idle"]
    /\ packages = [v \in Inv |-> <<>>]
    /\ rootUnit = [v \in Inv |-> NoUnit]
    /\ i = [v \in Inv |-> 0]
    /\ errors = [v \in Inv |-> <<>>]
    /\ rejected = [v \in Inv |-> FALSE]
    /\ allErrors = [v \in Inv |-> <<>>]
    /\ outcome = [v \in Inv |-> "none"]
    /\ checked = [v \in Inv |-> {}]
    /\ sigAt = [v \in Inv |-> 0]
    /\ firstId = [v \in Inv |-> 0]
    /\ overlapped = {}
    /\ prev = "none"

\* A continuation of an awaited, already settled promise is queued.
MicrotaskPending == \E w \in Inv : pc[w] = "awaitUnit"

\* The first id an invocation took: first as it was, or the id taken first
\* in a step that moved the counter from `before` to `after`.
FirstIdAfter(first, before, after) ==
    IF first = 0 /\ after > before THEN NextId(before) ELSE first

\* `this.errorIdCounter = 0` (line 20)
ResetCounter == 0
KeepInterrupted == interrupted
\* `this.interrupted = false` (line 21)
ResetInterrupted == FALSE

FinishKeepsListener(v, how, lst) ==
    /\ listeners' = lst
    /\ pc' = [pc EXCEPT ![v] = "done"]
    /\ outcome' = [outcome EXCEPT ![v] = how]
\* The exit through `finally`: process.off("SIGINT", interruptHandler),
\* then the promise settles with `how`.
Finish(v, how, lst) ==
    /\ listeners' = lst \ {v}
    /\ pc' = [pc EXCEPT ![v] = "done"]
    /\ outcome' = [outcome EXCEPT ![v] = how]

\* What a call of onProgress does: it returns, or it throws.
Callbacks == {"ok", "throws"}

\* collect(rootPath, monorepoInfo, onProgress) from its call to its first
\* suspension.  cb is what the call of onProgress does.
Start(v, pkgs, root, cb) ==
    /\ pc[v] = "idle"
    /\ packages' = [packages EXCEPT ![v] = pkgs]
    /\ rootUnit' = [rootUnit EXCEPT ![v] = root]
    /\ allErrors' = [allErrors EXCEPT ![v] = <<>>]
    /\ interrupted' = ResetInterrupted
    /\ i' = [i EXCEPT ![v] = 0]
    /\ sigAt' = [sigAt EXCEPT ![v] = 0]
    /\ IF cb = "throws"
       THEN \* onProgress throws inside the try block
            /\ errorIdCounter' = ResetCounter
            /\ Finish(v, "callbackError", listeners \cup {v})
            /\ firstId' = [firstId EXCEPT ![v] = 0]
            /\ UNCHANGED <<errors, rejected, checked>>
       ELSE IF Len(pkgs) = 0
       THEN \* collectFromPath(rootPath, "root") runs to its end, then `await`
            LET r == CollectFromPath(root, ResetCounter, ResetInterrupted) IN
            /\ errorIdCounter' = r.counter
            /\ errors' = [errors EXCEPT ![v] = r.errors]
            /\ rejected' = [rejected EXCEPT ![v] = r.escaped]
            /\ checked' = [checked EXCEPT ![v] = IF r.started THEN {root.name} ELSE {}]
            /\ firstId' = [firstId EXCEPT ![v] = FirstIdAfter(0, ResetCounter, r.counter)]
            /\ listeners' = listeners \cup {v}
            /\ pc' = [pc EXCEPT ![v] = "awaitUnit"]
            /\ outcome' = [outcome EXCEPT ![v] = "none"]
       ELSE \* i = 0: the flag was just cleared; onProgress; await setImmediate
            /\ errorIdCounter' = ResetCounter
            /\ errors' = [errors EXCEPT ![v] = <<>>]
            /\ checked' = [checked EXCEPT ![v] = {}]
            /\ firstId' = [firstId EXCEPT ![v] = 0]
            /\ UNCHANGED rejected
            /\ listeners' = listeners \cup {v}
            /\ pc' = [pc EXCEPT ![v] = "yield"]
            /\ outcome' = [outcome EXCEPT ![v] = "none"]

\* The setImmediate callback resumes collect: collectFromPath(pkg.path,
\* pkg.name) runs to its end and collect suspends on `await` of its promise.
RunUnit(v) ==
    /\ pc[v] = "yield"
    /\ ~MicrotaskPending
    /\ LET r == CollectFromPath(packages[v][i[v] + 1], errorIdCounter, interrupted) IN
       /\ errorIdCounter' = r.counter
       /\ errors' = [errors EXCEPT ![v] = r.errors]
       /\ rejected' = [rejected EXCEPT ![v] = r.escaped]
       /\ checked' = [checked EXCEPT ![v] =
              IF r.started THEN @ \cup {packages[v][i[v] + 1].name} ELSE @]
       /\ firstId' = [firstId EXCEPT ![v] = FirstIdAfter(@, errorIdCounter, r.counter)]
    /\ pc' = [pc EXCEPT ![v] = "awaitUnit"]
    /\ UNCHANGED <<interrupted, listeners, packages, rootUnit, i, allErrors, outcome,
                   sigAt>>

ObservesInterruptNever(intr) == FALSE
\* The loop's guard on entry to a turn: `if (this.interrupted) throw ...`
ObservesInterrupt(intr) == intr

\* collect resumes after `await this.collectFromPath(...)`: a rejection is
\* rethrown; else allErrors.push(...errors), then either the return or the
\* next turn of the loop up to its suspension.
Continue(v) ==
    /\ pc[v] = "awaitUnit"
    /\ errors' = [errors EXCEPT ![v] = <<>>]
    /\ rejected' = [rejected EXCEPT ![v] = FALSE]
    /\ IF rejected[v]
       THEN /\ Finish(v, "unitError", listeners)
            /\ UNCHANGED <<i, allErrors>>
       ELSE /\ allErrors' = [allErrors EXCEPT ![v] = Push(@, errors[v])]
            /\ IF Len(packages[v]) = 0 \/ i[v] + 1 >= Len(packages[v])
               THEN \* return allErrors
                    /\ Finish(v, "returned", listeners)
                    /\ UNCHANGED i
               ELSE /\ i' = [i EXCEPT ![v] = @ + 1]
                    /\ IF ObservesInterrupt(interrupted)
                       THEN Finish(v, "interrupted", listeners)
                       ELSE \E cb \in Callbacks :
                              IF cb = "throws"
                              THEN Finish(v, "callbackError", listeners)
                              ELSE /\ pc' = [pc EXCEPT ![v] = "yield"]
                                   /\ UNCHANGED <<listeners, outcome>>
    /\ UNCHANGED <<errorIdCounter, interrupted, packages, rootUnit, checked, sigAt,
                   firstId>>

\* SIGINT is delivered: every registered interruptHandler runs.
Sigint ==
    /\ ~MicrotaskPending
    /\ interrupted' = IF listeners # {} THEN TRUE ELSE interrupted
    /\ sigAt' = [v \in Inv |->
          IF v \in listeners /\ sigAt[v] = 0 THEN i[v] + 1 ELSE sigAt[v]]
    /\ UNCHANGED <<errorIdCounter, listeners, pc, packages, rootUnit, i, errors,
                   rejected, allErrors, outcome, checked, firstId>>

\* The caller has taken the settled promise's value; the invocation's
\* locals are gone and the collector can be used again.
Settle(v) ==
    /\ pc[v] = "done"
    /\ pc' = [pc EXCEPT ![v] = "idle"]
    /\ packages' = [packages EXCEPT ![v] = <<>>]
    /\ rootUnit' = [rootUnit EXCEPT ![v] = NoUnit]
    /\ i' = [i EXCEPT ![v] = 0]
    /\ allErrors' = [allErrors EXCEPT ![v] = <<>>]
    /\ outcome' = [outcome EXCEPT ![v] = "none"]
    /\ checked' = [checked EXCEPT ![v] = {}]
    /\ sigAt' = [sigAt EXCEPT ![v] = 0]
    /\ firstId' = [firstId EXCEPT ![v] = 0]
    /\ UNCHANGED <<errorIdCounter, interrupted, listeners, errors, rejected>>

\* collect run from its call to its return with no interruption and an
\* onProgress that returns: the list it returns.
RECURSIVE CollectLoop(_, _, _, _)
CollectLoop(pkgs, k, counter, acc) ==
    IF k > Len(pkgs) THEN acc
    ELSE LET r == CollectFromPath(pkgs[k], counter, ResetInterrupted)
         IN  CollectLoop(pkgs, k + 1, r.counter, Push(acc, r.errors))
CollectAll(pkgs, root) ==
    IF Len(pkgs) = 0
    THEN Push(<<>>, CollectFromPath(root, ResetCounter, ResetInterrupted).errors)
    ELSE CollectLoop(pkgs, 1, ResetCounter, <<>>)

\* ------------------------------------------------------- inputs (detection)
\* What the scan root holds.
\*   manifest       package.json at the root:
\*     missing        no such file
\*     unreadable     content that JSON.parse rejects, or the JSON value null
\*     plain          an object without `workspaces`
\*     wsArray        `workspaces` is an array of glob patterns
\*     wsArrayBad     `workspaces` is an array holding a non-string
\*     wsObject       `workspaces` is an object whose `packages` lists patterns
\*     wsObjectEmpty  `workspaces` is an object whose `packages` is []
\*     wsObjectBare   `workspaces` is an object without `packages`
\*   named          the manifest object has a non-empty `name`
\*   turboJson      turbo.json exists
\*   pnpmWorkspace  pnpm-workspace.yaml: missing, malformed, with a
\*                  `packages` list of patterns, or with a list that holds a
\*                  non-string (patternsBad)
\*   yarnLock       yarn.lock exists
\*   lernaJson      lerna.json: missing, malformed, readable (its patterns
\*                  or the default), or with a `packages` list that holds a
\*                  non-string (patternsBad)
\*   nxJson, workspaceJson
\*                  nx.json and workspace.json: missing, malformed, an
\*                  object without `projects` (noProjects), with a
\*                  `projects` map from each member's project name to its
\*                  directory (projects), or with a map that holds a value
\*                  that is no string (projectsBad)
\*   members        the directories packages/m1, packages/m2, ... that every
\*                  pattern matches, each with a package.json that has a
\*                  name (named), with a package.json from which nothing is
\*                  read (broken), or without package.json (bare)
ManifestKinds ==
    {"missing", "unreadable", "plain", "wsArray", "wsArrayBad", "wsObject",
     "wsObjectEmpty", "wsObjectBare"}
ConfigKinds == {"missing", "malformed", "patterns", "patternsBad"}
NxKinds == {"missing", "malformed", "noProjects", "projects", "projectsBad"}
MemberKinds == {"named", "broken", "bare"}
RECURSIVE MemberLists(_)
MemberLists(n) ==
    IF n = 0 THEN {<<>>}
    ELSE LET shorter == MemberLists(n - 1)
         IN  shorter \cup {Append(l, c) : l \in {s \in shorter : Len(s) = n - 1},
                                          c \in MemberKinds}
\* The number of configuration files beside package.json that exist.
ConfigFiles(r) ==
    LET one(b) == IF b THEN 1 ELSE 0
    IN  one(r.turboJson) + one(r.pnpmWorkspace # "missing") + one(r.yarnLock)
          + one(r.lernaJson # "missing") + one(r.nxJson # "missing")
          + one(r.workspaceJson # "missing")
\* The roots the orchestrator is run on together with custom detectors.
Roots ==
    {r \in [manifest : ManifestKinds, named : BOOLEAN, turboJson : BOOLEAN,
            pnpmWorkspace : {"missing", "malformed", "patterns"},
            yarnLock : BOOLEAN,
            lernaJson : {"missing", "malformed", "patterns"},
            nxJson : {"missing", "noProjects"}, workspaceJson : {"missing"},
            members : {<<>>, <<"named">>, <<"broken">>}] :
        r.named => r.manifest \notin {"missing", "unreadable"}}
\* The roots the built-in detectors are run on: every content of every
\* file, at most MaxConfigFiles configuration files beside package.json, at
\* most MaxMembers member directories.
ProbeRoots ==
    {r \in [manifest : ManifestKinds, named : BOOLEAN, turboJson : BOOLEAN,
            pnpmWorkspace : ConfigKinds, yarnLock : BOOLEAN,
            lernaJson : ConfigKinds, nxJson : NxKinds, workspaceJson : NxKinds,
            members : MemberLists(MaxMembers)] :
        /\ r.named => r.manifest \notin {"missing", "unreadable"}
        /\ ConfigFiles(r) <= MaxConfigFiles}
EmptyRoot ==
    [manifest |-> "missing", named |-> FALSE, turboJson |-> FALSE,
     pnpmWorkspace |-> "missing", yarnLock |-> FALSE, lernaJson |-> "missing",
     nxJson |-> "missing", workspaceJson |-> "missing", members |-> <<>>]

\* A detector the caller passes in: its detect returns false, throws, or
\* returns true, and then its `name` is one of the MonorepoType tags.
CustomKinds == {"no", "throws", "npm", "lerna"}
RECURSIVE CustomLists(_)
CustomLists(n) ==
    IF n = 0 THEN {<<>>}
    ELSE LET shorter == CustomLists(n - 1)
         IN  shorter \cup {Append(l, c) : l \in {s \in shorter : Len(s) = n - 1},
                                          c \in CustomKinds}

RootPath == "root"
RootName == "root-package"
MemberNames == <<"m1", "m2", "m3", "m4">>
ProjectNames == <<"p1", "p2", "p3", "p4">>
MemberPaths ==
    <<"root/packages/m1", "root/packages/m2", "root/packages/m3", "root/packages/m4">>
\* `packages.push({ name: pkgJson.name, path: packagePath, ... })`
MemberPackage(k) == [name |-> MemberNames[k], path |-> MemberPaths[k]]
\* `packages.push({ name: projectName, path: fullPath })`
ProjectPackage(k) == [name |-> ProjectNames[k], path |-> MemberPaths[k]]
CustomPackage == [name |-> "custom", path |-> "root/custom"]

\* ------------------------------------------------------------ the detectors
\* readJSON of the root manifest yields an object (not null).
ReadJSON(root) == root.manifest \notin {"missing", "unreadable"}
\* `packageJson.workspaces` is truthy.
Workspaces(root) ==
    ReadJSON(root) /\ root.manifest # "plain"
\* fast-glob over `<pattern>/package.json`, readJSON of each match, kept when
\* `pkgJson?.name` is truthy.
KeepsEvery(kind) == TRUE
\* `if (pkgJson?.name)`
HasName(kind) == kind = "named"
GlobAndRead(root) ==
    LET matched == SelectSeq([k \in 1..Len(root.members) |-> k],
                             LAMBDA k : root.members[k] # "bare")
        kept == SelectSeq(matched, LAMBDA k : HasName(root.members[k]))
    IN  [j \in 1..Len(kept) |-> MemberPackage(kept[j])]
Packages(list) == [threw |-> FALSE, packages |-> list]
Thrown == [threw |-> TRUE, packages |-> <<>>]

NpmDetectNonEmpty(root) == root.manifest \in {"wsArray", "wsArrayBad", "wsObject"}
\* NpmDetector.detect
NpmDetect(root) ==
    /\ ReadJSON(root)
    /\ Workspaces(root)
    /\ root.manifest \in {"wsArray", "wsArrayBad", "wsObject", "wsObjectEmpty"}
\* NpmDetector.getPackages; path.join throws on a pattern that is no string.
NpmGetPackages(root) ==
    IF ~Workspaces(root) THEN Packages(<<>>)
    ELSE CASE root.manifest \in {"wsArray", "wsObject"} -> Packages(GlobAndRead(root))
           [] root.manifest = "wsArrayBad" -> Thrown
           [] OTHER -> Packages(<<>>)
\* YarnDetector.detect
YarnDetect(root) == NpmDetect(root) /\ root.yarnLock
PnpmDetectParsed(root) == root.pnpmWorkspace \in {"patterns", "patternsBad"}
\* PnpmDetector.detect
PnpmDetect(root) == root.pnpmWorkspace # "missing"
\* PnpmDetector.getPackages; what the try block throws is caught.
PnpmGetPackages(root) ==
    IF root.pnpmWorkspace = "patterns" THEN Packages(GlobAndRead(root))
    ELSE Packages(<<>>)
\* LernaDetector
LernaDetect(root) == root.lernaJson # "missing"
\* LernaDetector.getPackages; path.join throws on a pattern that is no string.
LernaGetPackages(root) ==
    CASE root.lernaJson = "patterns" -> Packages(GlobAndRead(root))
      [] root.lernaJson = "patternsBad" -> Thrown
      [] OTHER -> Packages(<<>>)
\* NxDetector.detect
NxDetect(root) == root.nxJson # "missing" \/ root.workspaceJson # "missing"
\* `nxJson?.projects || workspaceJson?.projects || {}`
ProjectPaths(root) ==
    IF root.nxJson \in {"projects", "projectsBad"} THEN root.nxJson
    ELSE IF root.workspaceJson \in {"projects", "projectsBad"} THEN root.workspaceJson
    ELSE "noProjects"
\* The entry of the projects map for member k: the manifest's name when one
\* is read, else the map key.
ProjectEntry(root, k) ==
    IF root.members[k] # "bare" /\ HasName(root.members[k])
    THEN MemberPackage(k)
    ELSE ProjectPackage(k)
\* NxDetector.getPackages; path.resolve throws on a project path that is no
\* string; with no package from the map the packages/ apps/ libs/ scan decides.
NxGetPackages(root) ==
    LET paths == ProjectPaths(root)
        listed == IF paths = "projects"
                  THEN [k \in 1..Len(root.members) |-> ProjectEntry(root, k)]
                  ELSE <<>>
    IN  IF paths = "projectsBad" THEN Thrown
        ELSE IF Len(listed) = 0 THEN Packages(GlobAndRead(root))
        ELSE Packages(listed)
\* TurboDetector: a turbo config file, and workspaces in the manifest or a
\* pnpm workspace file; enumeration is delegated to pnpm or npm.
TurboDetect(root) ==
    root.turboJson /\ (Workspaces(root) \/ root.pnpmWorkspace # "missing")
TurboGetPackages(root) ==
    IF root.pnpmWorkspace # "missing" THEN PnpmGetPackages(root)
    ELSE NpmGetPackages(root)

DefaultDetectorsNpmFirst == <<"npm", "pnpm", "yarn", "turbo", "lerna", "nx">>
\* DEFAULT_DETECTORS, in priority order
DEFAULT_DETECTORS == <<"turbo", "pnpm", "yarn", "npm", "lerna", "nx">>

BuiltIn(nm) == [custom |-> FALSE, kind |-> nm]
Custom(c) == [custom |-> TRUE, kind |-> c]
\* `[...customDetectors, ...DEFAULT_DETECTORS]`
Detectors(customs) ==
    [k \in 1..Len(customs) |-> Custom(customs[k])]
        \o [k \in 1..Len(DEFAULT_DETECTORS) |-> BuiltIn(DEFAULT_DETECTORS[k])]

\* detector.name
Name(d) == d.kind
\* detector.detect(rootPath): "true", "false" or "throws"
Detect(d, root) ==
    LET yes(b) == IF b THEN "true" ELSE "false"
    IN  IF d.custom
        THEN CASE d.kind = "no" -> "false"
               [] d.kind = "throws" -> "throws"
               [] OTHER -> "true"
        ELSE CASE d.kind = "turbo" -> yes(TurboDetect(root))
               [] d.kind = "pnpm" -> yes(PnpmDetect(root))
               [] d.kind = "yarn" -> yes(YarnDetect(root))
               [] d.kind = "npm" -> yes(NpmDetect(root))
               [] d.kind = "lerna" -> yes(LernaDetect(root))
               [] d.kind = "nx" -> yes(NxDetect(root))
\* detector.getPackages(rootPath)
GetPackages(d, root) ==
    IF d.custom THEN Packages(<<CustomPackage>>)
    ELSE CASE d.kind = "turbo" -> TurboGetPackages(root)
           [] d.kind = "pnpm" -> PnpmGetPackages(root)
           [] d.kind \in {"yarn", "npm"} -> NpmGetPackages(root)
           [] d.kind = "lerna" -> LernaGetPackages(root)
           [] d.kind = "nx" -> NxGetPackages(root)

\* ----------------------------------------------------------- detectMonorepo
NoInfo == [isMonorepo |-> FALSE, type |-> "", rootPath |-> "", packages |-> <<>>]

DetectorInit ==
    /\ fs = EmptyRoot
    /\ customDetectors = <<>>
    /\ dpc = "idle"
    /\ detectorIdx = 0
    /\ detectCalls = <<>>
    /\ getPackagesCalls = <<>>
    /\ info = NoInfo
    /\ detectOutcome = "none"

\* detectMonorepo(rootPath, customDetectors) is called.
DetectMonorepo ==
    /\ dpc = "idle"
    /\ \E root \in Roots : \E customs \in CustomLists(MaxCustom) :
          /\ fs' = root
          /\ customDetectors' = customs
    /\ dpc' = "loop"
    /\ detectorIdx' = 1
    /\ UNCHANGED <<detectCalls, getPackagesCalls, info, detectOutcome>>
    /\ UNCHANGED <<collectorVars, generatorVars, cliVars, formatVars>>

\* detectMonorepo(rootPath) is called with the built-in detectors alone.
ProbeMonorepo ==
    /\ dpc = "idle"
    /\ \E root \in ProbeRoots : fs' = root
    /\ customDetectors' = <<>>
    /\ dpc' = "loop"
    /\ detectorIdx' = 1
    /\ UNCHANGED <<detectCalls, getPackagesCalls, info, detectOutcome>>
    /\ UNCHANGED <<collectorVars, generatorVars, cliVars, formatVars>>

\* `if (isDetected)`
IsDetected(answer) == answer = "true"

\* One turn of `for (const detector of detectors)`: detect is awaited and,
\* when it returned true, getPackages is awaited and the result returned.
TryDetector ==
    /\ dpc = "loop"
    /\ detectorIdx <= Len(Detectors(customDetectors))
    /\ LET d == Detectors(customDetectors)[detectorIdx]
           call == [at |-> detectorIdx, detector |-> d]
           answer == Detect(d, fs)
           got == GetPackages(d, fs)
       IN  /\ detectCalls' = Append(detectCalls, call)
           /\ IF answer = "throws"
              THEN /\ dpc' = "done"
                   /\ detectOutcome' = "raised"
                   /\ UNCHANGED <<detectorIdx, getPackagesCalls, info>>
              ELSE IF IsDetected(answer)
              THEN /\ getPackagesCalls' = Append(getPackagesCalls, call)
                   /\ dpc' = "done"
                   /\ IF got.threw
                      THEN detectOutcome' = "raised" /\ UNCHANGED info
                      ELSE /\ detectOutcome' = "returned"
                           /\ info' = [isMonorepo |-> TRUE, type |-> Name(d),
                                       rootPath |-> RootPath,
                                       packages |-> got.packages]
                   /\ UNCHANGED detectorIdx
              ELSE /\ detectorIdx' = detectorIdx + 1
                   /\ UNCHANGED <<dpc, getPackagesCalls, info, detectOutcome>>
    /\ UNCHANGED <<fs, customDetectors>>
    /\ UNCHANGED <<collectorVars, generatorVars, cliVars, formatVars>>

\* `JSON.parse(readFileSync(packageJsonPath))` yields a value whose `name`
\* can be read.
ReadManifest(root) == root.manifest \notin {"missing", "unreadable"}

UnknownAlways(root) == "unknown"
\* `packageJson.name || "unknown"`
ManifestName(root) == IF root.named THEN RootName ELSE "unknown"

\* What lines 57-82 return: the manifest at the root is read and parsed
\* inside try/catch.
SinglePackageInfo(root) ==
    [isMonorepo |-> FALSE, type |-> "none", rootPath |-> RootPath,
     packages |-> IF ReadManifest(root)
                  THEN <<[name |-> ManifestName(root), path |-> RootPath]>>
                  ELSE <<>>]

\* "No monorepo detected, check for single package"
SinglePackage ==
    /\ dpc = "loop"
    /\ detectorIdx > Len(Detectors(customDetectors))
    /\ dpc' = "done"
    /\ detectOutcome' = "returned"
    /\ info' = SinglePackageInfo(fs)
    /\ UNCHANGED <<fs, customDetectors, detectorIdx, detectCalls, getPackagesCalls>>
    /\ UNCHANGED <<collectorVars, generatorVars, cliVars, formatVars>>

\* detectMonorepo run from its call to its end: whether it raised, and the
\* MonorepoInfo it returned.
RECURSIVE DetectFrom(_, _, _)
DetectFrom(ds, k, root) ==
    IF k > Len(ds) THEN [raised |-> FALSE, info |-> SinglePackageInfo(root)]
    ELSE LET answer == Detect(ds[k], root)
             got == GetPackages(ds[k], root)
         IN  IF answer = "throws" THEN [raised |-> TRUE, info |-> NoInfo]
             ELSE IF IsDetected(answer)
             THEN IF got.threw THEN [raised |-> TRUE, info |-> NoInfo]
                  ELSE [raised |-> FALSE,
                        info |-> [isMonorepo |-> TRUE, type |-> Name(ds[k]),
                                  rootPath |-> RootPath, packages |-> got.packages]]
             ELSE DetectFrom(ds, k + 1, root)
DetectAll(root, customs) == DetectFrom(Detectors(customs), 1, root)

\* The caller has taken the settled promise's value.
DetectSettle ==
    /\ dpc = "done"
    /\ fs' = EmptyRoot
    /\ customDetectors' = <<>>
    /\ dpc' = "idle"
    /\ detectorIdx' = 0
    /\ detectCalls' = <<>>
    /\ getPackagesCalls' = <<>>
    /\ info' = NoInfo
    /\ detectOutcome' = "none"
    /\ UNCHANGED <<collectorVars, generatorVars, cliVars, formatVars>>

\* ------------------------------------------------------------- TsvGenerator
\* Text is a sequence of characters: the three the generator escapes, the
\* space, and characters that stand for themselves.
Tab == "TAB"
Newline == "LF"
Return == "CR"
Space == "SP"
Chars == {"x", Tab, Newline, Return}
RECURSIVE Strings(_)
Strings(n) ==
    IF n = 0 THEN {<<>>}
    ELSE LET shorter == Strings(n - 1)
         IN  shorter \cup {Append(s, ch) : s \in {t \in shorter : Len(t) = n - 1},
                                           ch \in Chars}
Digits == <<"0", "1", "2", "3", "4", "5", "6", "7", "8", "9">>
\* Number.prototype.toString of a non-negative integer
RECURSIVE NumberToString(_)
NumberToString(n) ==
    IF n < 10 THEN <<Digits[n + 1]>>
    ELSE NumberToString(n \div 10) \o <<Digits[(n % 10) + 1]>>
\* String.prototype.replace(/c/g, by)
RECURSIVE ReplaceAll(_, _, _)
ReplaceAll(s, ch, by) ==
    IF s = <<>> THEN <<>>
    ELSE (IF Head(s) = ch THEN by ELSE <<Head(s)>>) \o ReplaceAll(Tail(s), ch, by)
\* Array.prototype.join(sep)
RECURSIVE Join(_, _)
Join(parts, sep) ==
    IF Len(parts) = 0 THEN <<>>
    ELSE IF Len(parts) = 1 THEN parts[1]
    ELSE parts[1] \o <<sep>> \o Join(Tail(parts), sep)

Unescaped(field) == field
\* TsvGenerator.escapeField
EscapeField(field) ==
    ReplaceAll(ReplaceAll(ReplaceAll(field, Tab, <<Space>>), Newline, <<Space>>),
               Return, <<>>)
Headers ==
    << <<"id">>, <<"package_name">>, <<"file_name">>, <<"error_code">>,
       <<"description">> >>
\* `const row = [...]; rows.push(row.join("\t"))`
Row(error) ==
    Join(<< NumberToString(error.id), EscapeField(error.packageName),
            EscapeField(error.fileName), NumberToString(error.errorCode),
            EscapeField(error.description) >>, Tab)
\* `rows.join("\n")` over the header row and one row per error
Content(list) ==
    Join(<<Join(Headers, Tab)>> \o [k \in 1..Len(list) |-> Row(list[k])], Newline)

\* The records handed to the generator: ids as the collector numbers them,
\* a compiler error code, and three strings of which one is drawn from every
\* text of at most MaxFieldLen characters while the others are plain.
ErrorCodes == {2322}
FieldNames == {"packageName", "fileName", "description"}
TsvRecords ==
    {[errorCode |-> code,
      packageName |-> IF f = "packageName" THEN s ELSE <<"x">>,
      fileName |-> IF f = "fileName" THEN s ELSE <<"x">>,
      description |-> IF f = "description" THEN s ELSE <<"x">>] :
        code \in ErrorCodes, f \in FieldNames, s \in Strings(MaxFieldLen)}
Numbered(list) ==
    [k \in 1..Len(list) |->
        [id |-> k, errorCode |-> list[k].errorCode,
         packageName |-> list[k].packageName, fileName |-> list[k].fileName,
         description |-> list[k].description]]

GeneratorInit ==
    /\ tsvPc = "idle"
    /\ tsvErrors = <<>>
    /\ tsvContent = <<>>

\* generate(errors, outputPath): the content handed to writeFile.
Generate ==
    /\ tsvPc = "idle"
    /\ \E n \in 0..MaxRecords : \E list \in [1..n -> TsvRecords] :
          /\ tsvErrors' = Numbered(list)
          /\ tsvContent' = Content(Numbered(list))
    /\ tsvPc' = "written"
    /\ UNCHANGED <<collectorVars, detectorVars, cliVars, formatVars>>

\* The caller has taken the settled promise; the file stays as written.
GenerateSettle ==
    /\ tsvPc = "written"
    /\ tsvPc' = "idle"
    /\ tsvErrors' = <<>>
    /\ tsvContent' = <<>>
    /\ UNCHANGED <<collectorVars, detectorVars, cliVars, formatVars>>

\* ---------------------------------------------------------------------- cli
\* An error message is a sequence of pieces of text; `-o` names a file in a
\* directory that may be called after the interruption notice.
InterruptedByUser == "Interrupted by user"
OutputPaths == {<<"typescript-errors.tsv">>, <<InterruptedByUser, "/errors.tsv">>}
\* `errorMessage.includes("Interrupted by user")`
Includes(message, text) == \E k \in DOMAIN message : message[k] = text
\* The TypeError of path.join / path.resolve that detectMonorepo rejects with.
DetectionError == <<"The \"path\" argument must be of type string">>
\* The error writeFile rejects with: it names the file.
WriteError(file) == <<"ENOENT: no such file or directory, open ">> \o file

CliInit ==
    /\ cliPc = "idle"
    /\ cliInterrupted = FALSE
    /\ activeSpinner = FALSE
    /\ cliRoot = EmptyRoot
    /\ outputPath = <<>>
    /\ cliInfo = NoInfo
    /\ cliErrors = <<>>
    /\ cliError = <<>>
    /\ cliEnded = "none"
    /\ exitCode = 0

\* process.exit(code)
Exit(code, how) ==
    /\ cliPc' = "exited"
    /\ exitCode' = code
    /\ cliEnded' = how

\* The catch block's test of the message (line 154)
HandledAsInterrupt(message) == Includes(message, InterruptedByUser)

\* The catch block of the action (lines 144-164)
Catch(message) ==
    /\ cliError' = message
    /\ IF cliInterrupted THEN Exit(130, "failure") /\ UNCHANGED activeSpinner
       ELSE IF HandledAsInterrupt(message)
       THEN Exit(130, "failure") /\ UNCHANGED activeSpinner
       ELSE Exit(1, "failure") /\ activeSpinner' = FALSE

\* The action starts: from its call to `await detectMonorepo(targetDir)`.
CliRun ==
    /\ cliPc = "idle"
    /\ \E root \in Roots : cliRoot' = root
    /\ \E out \in OutputPaths : outputPath' = out
    /\ activeSpinner' = TRUE
    /\ cliPc' = "detecting"
    /\ UNCHANGED <<cliInterrupted, cliInfo, cliErrors, cliError, cliEnded, exitCode>>
    /\ UNCHANGED <<collectorVars, detectorVars, generatorVars, formatVars>>

\* detectMonorepo settles: the action goes on to
\* `await collectTypeScriptErrors(...)`, or its catch block runs.
CliDetected ==
    /\ cliPc = "detecting"
    /\ LET r == DetectAll(cliRoot, <<>>)
       IN  IF r.raised
           THEN Catch(DetectionError) /\ UNCHANGED cliInfo
           ELSE /\ cliInfo' = r.info
                /\ cliPc' = "collecting"
                /\ activeSpinner' = TRUE
                /\ UNCHANGED <<cliError, cliEnded, exitCode>>
    /\ UNCHANGED <<cliInterrupted, cliRoot, outputPath, cliErrors>>
    /\ UNCHANGED <<collectorVars, detectorVars, generatorVars, formatVars>>

\* collectTypeScriptErrors settles with the list of a run no SIGINT reached:
\* the action goes on to `await generateTSV(errors, outputPath)`.
CliCollected ==
    /\ cliPc = "collecting"
    /\ \E shapes \in [1..Len(cliInfo.packages) -> QuietShapes] :
          LET pkgs == [k \in 1..Len(cliInfo.packages) |->
                          Unit(cliInfo.packages[k].name, shapes[k])]
          IN  \E root \in RootUnits(pkgs) : cliErrors' = CollectAll(pkgs, root)
    /\ activeSpinner' = TRUE
    /\ cliPc' = "writing"
    /\ UNCHANGED <<cliInterrupted, cliRoot, outputPath, cliInfo, cliError, cliEnded,
                   exitCode>>
    /\ UNCHANGED <<collectorVars, detectorVars, generatorVars, formatVars>>

\* generateTSV settles: the action ends and the process exits with the
\* default code once nothing is pending, or writeFile has rejected and the
\* catch block runs.
CliWritten ==
    /\ cliPc = "writing"
    /\ \/ /\ activeSpinner' = FALSE
          /\ Exit(0, "completed")
          /\ UNCHANGED cliError
       \/ Catch(WriteError(outputPath))
    /\ UNCHANGED <<cliInterrupted, cliRoot, outputPath, cliInfo, cliErrors>>
    /\ UNCHANGED <<collectorVars, detectorVars, generatorVars, formatVars>>

\* SIGINT is delivered while the action is suspended: the listener of
\* line 16, registered before any other, runs first and ends the process.
CliSigint ==
    /\ cliPc \in {"detecting", "collecting", "writing"}
    /\ ~cliInterrupted
    /\ cliInterrupted' = TRUE
    /\ activeSpinner' = FALSE
    /\ Exit(130, "sigint")
    /\ UNCHANGED <<cliRoot, outputPath, cliInfo, cliErrors, cliError>>
    /\ UNCHANGED <<collectorVars, detectorVars, generatorVars, formatVars>>

\* The process has ended; the command is run again.
CliSettle ==
    /\ cliPc = "exited"
    /\ cliPc' = "idle"
    /\ cliInterrupted' = FALSE
    /\ activeSpinner' = FALSE
    /\ cliRoot' = EmptyRoot
    /\ outputPath' = <<>>
    /\ cliInfo' = NoInfo
    /\ cliErrors' = <<>>
    /\ cliError' = <<>>
    /\ cliEnded' = "none"
    /\ exitCode' = 0
    /\ UNCHANGED <<collectorVars, detectorVars, generatorVars, formatVars>>

\* ------------------------------------------- formatDiagnostics: positions
\* An optional value (`line?: number`, `diagnostic.file`, `diagnostic.start`)
\* is a sequence of at most one element: <<>> is undefined.
Undefined == <<>>
Some(x) == <<x>>

\* process.cwd() and a source file's absolute name, as path segments.
Cwd == <<"repo">>
SourceFileName == <<"repo", "src", "a.ts">>

\* A source file: its name and its text, as the lengths of its lines (each
\* counted with its line break).
RECURSIVE LineLists(_)
LineLists(n) ==
    IF n = 0 THEN {<<>>}
    ELSE LET shorter == LineLists(n - 1)
         IN  shorter \cup {Append(l, len) : l \in {s \in shorter : Len(s) = n - 1},
                                            len \in 1..MaxLineLen}
SourceFiles ==
    {[fileName |-> SourceFileName, lines |-> l] : l \in LineLists(MaxLines) \ {<<>>}}

RECURSIVE Sum(_)
Sum(lens) == IF lens = <<>> THEN 0 ELSE Head(lens) + Sum(Tail(lens))
TextLength(file) == Sum(file.lines)
\* sourceFile.getLineStarts(): the offset of each line's first character
LineStarts(file) == [k \in 1..Len(file.lines) |-> Sum(SubSeq(file.lines, 1, k - 1))]

\* The raw diagnostics of a program with the source file `file`: each with or
\* without the file, with or without a start offset into its text.
RawDiagnostics(file) ==
    [file : {Undefined, Some(file)},
     start : {Undefined} \cup {Some(p) : p \in 0..TextLength(file)}]

\* sourceFile.getLineAndCharacterOfPosition(position): the last line that
\* starts at or before the position, and the distance from its start; 0-based.
GetLineAndCharacterOfPosition(file, position) ==
    LET starts == LineStarts(file)
        at == CHOOSE k \in DOMAIN starts :
                  /\ starts[k] <= position
                  /\ \A j \in DOMAIN starts : starts[j] <= position => j <= k
    IN  [line |-> at - 1, character |-> position - starts[at]]

RECURSIVE CommonPrefix(_, _)
CommonPrefix(a, b) ==
    IF a = <<>> \/ b = <<>> \/ Head(a) # Head(b) THEN 0
    ELSE 1 + CommonPrefix(Tail(a), Tail(b))
\* path.relative(from, to): one ".." per segment of `from` beyond the common
\* prefix, then the segments of `to` beyond it.
Relative(from, to) ==
    LET c == CommonPrefix(from, to)
    IN  [k \in 1..(Len(from) - c) |-> ".."] \o SubSeq(to, c + 1, Len(to))

HasPositionTruthy(diagnostic) ==
    /\ diagnostic.file # Undefined
    /\ diagnostic.start # Undefined
    /\ diagnostic.start # Some(0)
\* `diagnostic.file && diagnostic.start !== undefined`
HasPosition(diagnostic) ==
    /\ diagnostic.file # Undefined
    /\ diagnostic.start # Undefined

\* The position fields the map callback gives one record.
PositionFields(diagnostic) ==
    IF HasPosition(diagnostic)
    THEN LET file == diagnostic.file[1]
             at == GetLineAndCharacterOfPosition(file, diagnostic.start[1])
         IN  [fileName |-> Relative(Cwd, file.fileName),
              line |-> Some(at.line + 1),
              column |-> Some(at.character + 1)]
    ELSE [fileName |-> <<"unknown">>, line |-> Undefined, column |-> Undefined]

\* formatDiagnostics(diagnostics, packageName) on a collector whose counter
\* is `counter`: ids as MapDiagnostics takes them, positions per diagnostic.
FormatRecords(raw, packageName, counter) ==
    LET unit == Unit(packageName, [kind |-> "checked", n |-> Len(raw), fault |-> 0])
        ids == FormatDiagnostics(unit, counter).errors
    IN  [k \in DOMAIN raw |->
            LET at == PositionFields(raw[k])
            IN  [id |-> ids[k].id, packageName |-> packageName,
                 fileName |-> at.fileName, line |-> at.line, column |-> at.column]]

FormatInit ==
    /\ fmtPc = "idle"
    /\ diagnostics = <<>>
    /\ formatted = <<>>

\* One call of formatDiagnostics on the raw diagnostics of a program.
Format ==
    /\ fmtPc = "idle"
    /\ \E file \in SourceFiles : \E n \in 0..MaxDiags :
          \E raw \in [1..n -> RawDiagnostics(file)] :
              /\ diagnostics' = raw
              /\ formatted' = FormatRecords(raw, AllNames[1], 0)
    /\ fmtPc' = "done"
    /\ UNCHANGED <<collectorVars, detectorVars, generatorVars, cliVars>>

FormatSettle ==
    /\ fmtPc = "done"
    /\ fmtPc' = "idle"
    /\ diagnostics' = <<>>
    /\ formatted' = <<>>
    /\ UNCHANGED <<collectorVars, detectorVars, generatorVars, cliVars>>

\* ----------------------------------------------------------- specifications
\* One collector used by one caller: an invocation starts after the
\* previous one has ended.
SeqStart ==
    /\ pc[1] = "idle"
    /\ \E pkgs \in PackageLists : \E root \in RootUnits(pkgs) : \E cb \in Callbacks :
          Start(1, pkgs, root, cb)
    /\ UNCHANGED <<overlapped, prev, detectorVars, generatorVars, cliVars, formatVars>>
SeqRunUnit == RunUnit(1) /\ UNCHANGED <<overlapped, prev, detectorVars, generatorVars, cliVars, formatVars>>
SeqContinue == Continue(1) /\ UNCHANGED <<overlapped, prev, detectorVars, generatorVars, cliVars, formatVars>>
SeqSigint == Sigint /\ UNCHANGED <<overlapped, prev, detectorVars, generatorVars, cliVars, formatVars>>
SeqSettle == Settle(1) /\ UNCHANGED <<overlapped, prev, detectorVars, generatorVars, cliVars, formatVars>>

Init == CollectorInit /\ DetectorInit /\ GeneratorInit /\ CliInit /\ FormatInit

Next == SeqStart \/ SeqRunUnit \/ SeqContinue \/ SeqSigint \/ SeqSettle

Spec == Init /\ [][Next]_vars

\* The same, remembering how the previous invocation ended.
ReuseStart ==
    /\ pc[1] = "idle"
    /\ \E pkgs \in ReuseLists : \E root \in RootUnits(pkgs) : \E cb \in Callbacks :
          Start(1, pkgs, root, cb)
    /\ UNCHANGED <<overlapped, prev, detectorVars, generatorVars, cliVars, formatVars>>
ReuseSettle ==
    Settle(1) /\ prev' = outcome[1] /\ UNCHANGED <<overlapped, detectorVars, generatorVars, cliVars, formatVars>>

ReuseNext == ReuseStart \/ SeqRunUnit \/ SeqContinue \/ SeqSigint \/ ReuseSettle

ReuseSpec == Init /\ [][ReuseNext]_vars

\* One collector whose collect is called again while an earlier call is
\* suspended.
InProgress(w) == pc[w] \in {"yield", "awaitUnit"}

OverlapStart ==
    \E v \in Inv :
      /\ pc[v] = "idle"
      /\ \E pkgs \in OverlapLists : \E root \in RootUnits(pkgs) : \E cb \in Callbacks :
            Start(v, pkgs, root, cb)
      /\ overlapped' =
            IF \E w \in Inv \ {v} : InProgress(w)
            THEN (overlapped \ {v}) \cup {w \in Inv : w = v \/ InProgress(w)}
            ELSE overlapped \ {v}
      /\ UNCHANGED <<prev, detectorVars, generatorVars, cliVars, formatVars>>
OverlapRunUnit == \E v \in Inv : RunUnit(v) /\ UNCHANGED <<overlapped, prev, detectorVars, generatorVars, cliVars, formatVars>>
OverlapContinue == \E v \in Inv : Continue(v) /\ UNCHANGED <<overlapped, prev, detectorVars, generatorVars, cliVars, formatVars>>
OverlapSettle == \E v \in Inv : Settle(v) /\ UNCHANGED <<overlapped, prev, detectorVars, generatorVars, cliVars, formatVars>>

OverlapNext ==
    OverlapStart \/ OverlapRunUnit \/ OverlapContinue \/ SeqSigint \/ OverlapSettle

OverlapSpec == Init /\ [][OverlapNext]_vars

\* detectMonorepo called on one scan root after another.
DetectNext == DetectMonorepo \/ TryDetector \/ SinglePackage \/ DetectSettle

DetectSpec == Init /\ [][DetectNext]_vars

\* detectMonorepo called with the built-in detectors on one scan root after
\* another.
ProbeNext == ProbeMonorepo \/ TryDetector \/ SinglePackage \/ DetectSettle

ProbeSpec == Init /\ [][ProbeNext]_vars

\* generate called on one list of records after another.
TsvNext == Generate \/ GenerateSettle

TsvSpec == Init /\ [][TsvNext]_vars

\* formatDiagnostics called on one list of raw diagnostics after another.
FormatNext == Format \/ FormatSettle

FormatSpec == Init /\ [][FormatNext]_vars

\* The command run on one directory after another.
CliNext ==
    CliRun \/ CliDetected \/ CliCollected \/ CliWritten \/ CliSigint \/ CliSettle

CliSpec == Init /\ [][CliNext]_vars


\* ------------------------------------------------------------------ claims
Returned(v) == pc[v] = "done" /\ outcome[v] = "returned"

\* The work list of an invocation: its packages, or the scan root alone.
Units(v) == IF Len(packages[v]) = 0 THEN <<rootUnit[v]>> ELSE packages[v]
Pos(v, nm) == CHOOSE k \in 1..Len(Units(v)) : Units(v)[k].name = nm

IdsOf(list) == {list[k].id : k \in DOMAIN list}
IdsAreOneToN(list) ==
    /\ IdsOf(list) = 1..Len(list)
    /\ \A j, k \in DOMAIN list : j # k => list[j].id # list[k].id

\* A unit whose configuration or check throws, and the number of records a
\* unit is due when it is processed.
Throws(u) == u.kind \in {"readError", "checkThrows"} \/ u.fault > 0
Due(u) == IF u.kind \in {"configErrors", "checked"} /\ u.fault = 0 THEN u.n ELSE 0
RecordsOf(list, nm) == {k \in DOMAIN list : list[k].packageName = nm}

\* The units' due records, unit after unit, as <<package name, diagnostic>>.
RECURSIVE DueFrom(_, _)
DueFrom(units, k) ==
    IF k > Len(units) THEN <<>>
    ELSE [d \in 1..Due(units[k]) |-> <<units[k].name, d>>] \o DueFrom(units, k + 1)
Shape(list) == [k \in DOMAIN list |-> <<list[k].packageName, list[k].diag>>]

RemoveAt(seq, k) == SubSeq(seq, 1, k - 1) \o SubSeq(seq, k + 1, Len(seq))

\* C1: every list collect returns carries the ids 1..N, N its length, with
\* no gap and no repeat, also when units were skipped or threw at any point
\* of their processing.
C1_IdsAreOneToN == \A v \in Inv : Returned(v) => IdsAreOneToN(allErrors[v])

\* C2: when two invocations on one collector overlap, each returned list
\* still carries the ids 1..N over its own records.
C2_OverlapKeepsIds ==
    \A v \in Inv : (Returned(v) /\ v \in overlapped) => IdsAreOneToN(allErrors[v])

\* C3: an invocation that follows another on the same collector starts with
\* the counter at 0 and the flag clear, however the previous one ended: at
\* its first suspension no id is taken but its own and the flag is set only
\* by a SIGINT of its own, the first id it takes is 1, and it ends as
\* interrupted only when a SIGINT arrived during it.
C3_NoLeakBetweenInvocations ==
    \A v \in Inv :
      /\ (pc[v] = "yield" /\ i[v] = 0) => errorIdCounter = 0
      /\ (pc[v] \in {"yield", "awaitUnit"} /\ sigAt[v] = 0) => ~interrupted
      /\ (pc[v] = "awaitUnit" /\ i[v] = 0 /\ sigAt[v] = 0) =>
            \A k \in DOMAIN errors[v] : errors[v][k].id = k
      /\ firstId[v] \in {0, 1}
      /\ (pc[v] = "done" /\ outcome[v] = "interrupted") => sigAt[v] # 0
C3_Witness ==
    /\ prev = "interrupted"
    /\ Returned(1)
    /\ sigAt[1] = 0
    /\ Len(allErrors[1]) > 0
    /\ allErrors[1][1].id = 1

\* C4: units are processed one at a time in package-list order, the
\* returned list is the concatenation of the units' records in that order,
\* each unit's in the checker's order, and ids increase along the list.
C4_InOrderConcatenation ==
    \A v \in Inv :
      LET all == allErrors[v]
          units == Units(v)
          cur == i[v] + 1
          last == IF sigAt[v] = 0 THEN Len(units) ELSE sigAt[v] - 1
      IN  /\ \A j, k \in DOMAIN all : j < k =>
                /\ all[j].id < all[k].id
                /\ \/ Pos(v, all[j].packageName) < Pos(v, all[k].packageName)
                   \/ /\ all[j].packageName = all[k].packageName
                      /\ all[j].diag < all[k].diag
          /\ pc[v] \in {"yield", "awaitUnit"} =>
                /\ \A k \in DOMAIN all : Pos(v, all[k].packageName) < cur
                /\ \A k \in DOMAIN errors[v] : errors[v][k].packageName = units[cur].name
                /\ \A nm \in checked[v] : Pos(v, nm) <= cur
          /\ pc[v] = "yield" => errors[v] = <<>> /\ units[cur].name \notin checked[v]
          /\ Returned(v) => Shape(all) = DueFrom(SubSeq(units, 1, last), 1)
C4_Witness ==
    /\ Returned(1)
    /\ Len(packages[1]) = 3
    /\ Len(allErrors[1]) >= 3
    /\ \E j, k \in DOMAIN allErrors[1] :
          /\ j < k
          /\ allErrors[1][j].packageName # allErrors[1][k].packageName
    /\ \E j, k \in DOMAIN allErrors[1] :
          /\ j < k
          /\ allErrors[1][j].packageName = allErrors[1][k].packageName

\* C5 as claimed: a unit without tsconfig.json contributes no record, takes
\* no id, and the result equals that of the same run without the unit.
C5_AbsentUnitAsIfRemoved ==
    \A v \in Inv : (Returned(v) /\ sigAt[v] = 0) =>
      \A k \in 1..Len(packages[v]) : packages[v][k].kind = "absent" =>
        /\ RecordsOf(allErrors[v], packages[v][k].name) = {}
        /\ allErrors[v] = CollectAll(RemoveAt(packages[v], k), rootUnit[v])

\* C5 as amended: the same, the equality for a list that keeps at least
\* one other unit; a list of that unit alone yields the empty result.
C5_AbsentUnitAsIfRemovedFromLongerList ==
    \A v \in Inv : (Returned(v) /\ sigAt[v] = 0) =>
      \A k \in 1..Len(packages[v]) : packages[v][k].kind = "absent" =>
        /\ RecordsOf(allErrors[v], packages[v][k].name) = {}
        /\ IF Len(packages[v]) >= 2
           THEN allErrors[v] = CollectAll(RemoveAt(packages[v], k), rootUnit[v])
           ELSE allErrors[v] = <<>>
C5_Witness ==
    /\ Returned(1)
    /\ sigAt[1] = 0
    /\ Len(packages[1]) = 3
    /\ packages[1][2].kind = "absent"
    /\ RecordsOf(allErrors[1], packages[1][1].name) # {}
    /\ RecordsOf(allErrors[1], packages[1][3].name) # {}

\* C6: a unit whose configuration or check throws contributes no record,
\* the exception never leaves collect, and every later unit is still
\* processed (as long as no interruption stops the run) and its records
\* are in the result.
C6_ThrowingUnitIsContained ==
    \A v \in Inv :
      /\ outcome[v] # "unitError"
      /\ ~rejected[v]
      /\ \A k \in 1..Len(Units(v)) : Throws(Units(v)[k]) =>
            /\ RecordsOf(allErrors[v], Units(v)[k].name) = {}
            /\ RecordsOf(errors[v], Units(v)[k].name) = {}
            /\ (Units(v)[k].name \in checked[v] /\ sigAt[v] = 0
                  /\ pc[v] \in {"yield", "awaitUnit"}) => outcome[v] = "none"
            /\ (Returned(v) /\ sigAt[v] = 0) =>
                  \A j \in (k + 1)..Len(Units(v)) :
                    /\ FindTsConfig(Units(v)[j]) => Units(v)[j].name \in checked[v]
                    /\ Cardinality(RecordsOf(allErrors[v], Units(v)[j].name))
                          = Due(Units(v)[j])
C6_Witness ==
    /\ Returned(1)
    /\ sigAt[1] = 0
    /\ Len(packages[1]) = 3
    /\ packages[1][1].kind = "readError"
    /\ packages[1][2].kind = "checked" /\ packages[1][2].fault = 2
    /\ Cardinality(RecordsOf(allErrors[1], packages[1][3].name)) = 2

\* C7: once the interruption flag is set before unit k's processing, no
\* type-check of unit k or of a later unit starts and no record of such a
\* unit is in what collect holds or returns.
C7_NothingAfterInterrupt ==
    \A v \in Inv : sigAt[v] # 0 =>
      \A j \in sigAt[v]..Len(Units(v)) :
        /\ Units(v)[j].name \notin checked[v]
        /\ RecordsOf(allErrors[v], Units(v)[j].name) = {}
        /\ RecordsOf(errors[v], Units(v)[j].name) = {}
C7_Witness ==
    /\ pc[1] = "done"
    /\ Len(packages[1]) = 3
    /\ sigAt[1] = 2
    /\ \A k \in 1..3 : Due(packages[1][k]) > 0
    /\ RecordsOf(allErrors[1], packages[1][1].name) # {}

\* C8 as claimed: when the flag is seen set at a unit boundary, collect
\* stops and returns the records collected so far as a normal result.
C8_InterruptReturnsPartialList ==
    \A v \in Inv :
      (pc[v] = "done" /\ sigAt[v] # 0 /\ sigAt[v] < Len(packages[v])) => Returned(v)

\* C8 as amended: when the flag is seen set at a unit boundary, collect
\* stops, processes no further unit and rejects with "Interrupted by user";
\* the records collected so far are not returned.
C8_InterruptRejects ==
    \A v \in Inv :
      /\ (pc[v] = "done" /\ sigAt[v] # 0 /\ sigAt[v] < Len(packages[v])) =>
            /\ outcome[v] = "interrupted"
            /\ i[v] = sigAt[v]
            /\ \A j \in sigAt[v]..Len(packages[v]) : packages[v][j].name \notin checked[v]
      /\ (pc[v] = "done" /\ outcome[v] = "interrupted") =>
            sigAt[v] # 0 /\ sigAt[v] < Len(packages[v])
C8_Witness ==
    /\ pc[1] = "done"
    /\ outcome[1] = "interrupted"
    /\ sigAt[1] = 2
    /\ Len(packages[1]) = 3
    /\ Len(allErrors[1]) > 0

\* The detectors in the order the orchestrator is to try them: the caller's,
\* then turbo, pnpm, yarn, npm, lerna, nx.
InPriorityOrder(customs) ==
    [k \in 1..Len(customs) |-> [custom |-> TRUE, kind |-> customs[k]]]
        \o << [custom |-> FALSE, kind |-> "turbo"], [custom |-> FALSE, kind |-> "pnpm"],
              [custom |-> FALSE, kind |-> "yarn"], [custom |-> FALSE, kind |-> "npm"],
              [custom |-> FALSE, kind |-> "lerna"], [custom |-> FALSE, kind |-> "nx"] >>
DetectReturned == dpc = "done" /\ detectOutcome = "returned"

\* C9: detectMonorepo tries the detectors in the order custom detectors,
\* turbo, pnpm, yarn, npm, lerna, nx, each at most once; a detector's detect
\* is invoked only while every earlier one returned false, so none is tried
\* after the first that returned true; getPackages is invoked only on that
\* first one, and only once; a monorepo result carries that detector's name
\* and packages; with no custom detector answering, a root that satisfies
\* both the turbo and the npm-workspaces condition is reported as turbo.
C9_FirstDetectorWins ==
    LET ds == InPriorityOrder(customDetectors)
        n == Len(detectCalls)
    IN  /\ n <= Len(ds)
        /\ \A k \in 1..n : detectCalls[k] = [at |-> k, detector |-> ds[k]]
        /\ \A k \in 1..(n - 1) : Detect(ds[k], fs) = "false"
        /\ Len(getPackagesCalls) <= 1
        /\ \A k \in 1..Len(getPackagesCalls) :
              /\ getPackagesCalls[k] = detectCalls[n]
              /\ Detect(ds[n], fs) = "true"
        /\ (DetectReturned /\ info.isMonorepo) =>
              /\ Detect(ds[n], fs) = "true"
              /\ getPackagesCalls = <<detectCalls[n]>>
              /\ info.type = ds[n].kind
              /\ info.packages = GetPackages(ds[n], fs).packages
        /\ ( /\ DetectReturned
             /\ \A k \in DOMAIN customDetectors : customDetectors[k] = "no"
             /\ TurboDetect(fs)
             /\ NpmDetect(fs) ) => info.type = "turbo"
\* A root with turbo.json, a pnpm workspace file, yarn.lock and npm
\* workspaces, scanned after MaxCustom custom detectors declined, is
\* reported as turbo with its member package.
C9_Witness ==
    /\ DetectReturned
    /\ Len(customDetectors) = MaxCustom
    /\ TurboDetect(fs) /\ PnpmDetect(fs) /\ YarnDetect(fs) /\ NpmDetect(fs)
    /\ info.type = "turbo"
    /\ info.packages # <<>>
    /\ Len(detectCalls) = MaxCustom + 1

\* C10: a result with isMonorepo = false has type none and at most one
\* package, whose path is the scan root; detectMonorepo ends with such a
\* result exactly when every detector was asked and every detect returned
\* false; the result then holds one package carrying the root manifest's
\* name ("unknown" when the manifest has none) when the root manifest is
\* read as an object, and no package, without raising, when the manifest is
\* missing or unreadable.
C10_SinglePackageFallback ==
    LET ds == InPriorityOrder(customDetectors)
        noneDetected ==
            /\ Len(detectCalls) = Len(ds)
            /\ \A k \in 1..Len(ds) : Detect(ds[k], fs) = "false"
        readable == fs.manifest \notin {"missing", "unreadable"}
    IN  dpc = "done" =>
          /\ (DetectReturned /\ ~info.isMonorepo) <=> noneDetected
          /\ (DetectReturned /\ ~info.isMonorepo) =>
                /\ info.type = "none"
                /\ Len(info.packages) <= 1
                /\ \A k \in DOMAIN info.packages : info.packages[k].path = RootPath
                /\ info.rootPath = RootPath
                /\ readable =>
                      info.packages =
                          << [name |-> IF fs.named THEN RootName ELSE "unknown",
                              path |-> RootPath] >>
                /\ ~readable => info.packages = <<>>
\* A root with a named manifest and no monorepo marker, scanned after a
\* custom detector declined, yields the one package named after the manifest.
C10_Witness ==
    /\ DetectReturned
    /\ ~info.isMonorepo
    /\ fs.named
    /\ Len(customDetectors) >= 1
    /\ Len(detectCalls) = Len(customDetectors) + 6
    /\ Len(info.packages) = 1
    /\ info.packages[1].name = RootName

\* C11: with the built-in detectors alone, detectMonorepo never raises:
\* whatever the configuration files at the root hold (missing, unparseable,
\* or of an unexpected shape such as a workspaces pattern or an nx project
\* path that is no string), a finished detection has returned a MonorepoInfo.
C11_ContentNeverRaises ==
    (dpc = "done" /\ customDetectors = <<>>) => detectOutcome = "returned"

\* The outcome of the finished detection, and the root with one file changed.
DetectEnded == [raised |-> detectOutcome = "raised", info |-> info]
ProbedFiles == {"manifest", "pnpmWorkspace", "lernaJson", "nxJson", "workspaceJson"}
Malformed(file) == IF file = "manifest" THEN "unreadable" ELSE "malformed"
With(root, file, kind) ==
    CASE file = "manifest" -> [root EXCEPT !.manifest = kind]
      [] file = "pnpmWorkspace" -> [root EXCEPT !.pnpmWorkspace = kind]
      [] file = "lernaJson" -> [root EXCEPT !.lernaJson = kind]
      [] file = "nxJson" -> [root EXCEPT !.nxJson = kind]
      [] file = "workspaceJson" -> [root EXCEPT !.workspaceJson = kind]
Holds(root, file) ==
    CASE file = "manifest" -> root.manifest
      [] file = "pnpmWorkspace" -> root.pnpmWorkspace
      [] file = "lernaJson" -> root.lernaJson
      [] file = "nxJson" -> root.nxJson
      [] file = "workspaceJson" -> root.workspaceJson

\* C12 (as stated): for every root and every probed configuration file
\* (package.json, pnpm-workspace.yaml, lerna.json, nx.json, workspace.json),
\* the MonorepoInfo returned when the file exists but cannot be parsed equals
\* the one returned for the same root with the file removed.
C12_MalformedAsRemoved ==
    (DetectReturned /\ customDetectors = <<>>) =>
        \A file \in ProbedFiles :
            Holds(fs, file) = Malformed(file) =>
                DetectAll(With(fs, file, "missing"), <<>>) = DetectEnded

\* C12 (amended): an unparseable package.json is treated as a removed one;
\* an unparseable pnpm-workspace.yaml, lerna.json, nx.json or workspace.json
\* still counts as present, so the root is reported as a monorepo, and no
\* package is enumerated from it: with pnpm-workspace.yaml unparseable the
\* result is pnpm (turbo beside a turbo.json) with no package, a lerna result
\* from an unparseable lerna.json has no package, and an unparseable nx.json
\* or workspace.json gives the result of the same file without a projects map.
C12_MalformedManifestAsRemoved ==
    (DetectReturned /\ customDetectors = <<>>) =>
        /\ fs.manifest = "unreadable" =>
              DetectAll(With(fs, "manifest", "missing"), <<>>) = DetectEnded
        /\ fs.pnpmWorkspace = "malformed" =>
              /\ info.isMonorepo
              /\ info.type = IF fs.turboJson THEN "turbo" ELSE "pnpm"
              /\ info.packages = <<>>
        /\ fs.lernaJson = "malformed" =>
              /\ info.isMonorepo
              /\ info.type = "lerna" => info.packages = <<>>
        /\ \A file \in {"nxJson", "workspaceJson"} :
              Holds(fs, file) = "malformed" =>
                  /\ info.isMonorepo
                  /\ DetectAll(With(fs, file, "noProjects"), <<>>) = DetectEnded
\* A root with a named package.json, a named member and an unparseable
\* pnpm-workspace.yaml is reported as pnpm without packages, where the root
\* without the file is reported as a single package.
C12_Witness ==
    /\ DetectReturned
    /\ customDetectors = <<>>
    /\ fs.pnpmWorkspace = "malformed"
    /\ ~fs.turboJson
    /\ fs.manifest = "plain" /\ fs.named
    /\ \E k \in DOMAIN fs.members : fs.members[k] = "named"
    /\ info.type = "pnpm"
    /\ ~DetectAll(With(fs, "pnpmWorkspace", "missing"), <<>>).info.isMonorepo

\* The packages of the result that lie in member directory k, and the root
\* with member k's package.json taken away.
PackagesAt(k) ==
    {j \in DOMAIN info.packages : info.packages[j].path = MemberPaths[k]}
WithoutManifest(root, k) == [root EXCEPT !.members[k] = "bare"]
\* The result was enumerated from a projects map of nx.json / workspace.json.
FromProjectsMap ==
    /\ DetectReturned
    /\ info.type = "nx"
    /\ \/ fs.nxJson = "projects"
       \/ fs.nxJson \in {"missing", "malformed", "noProjects"} /\ fs.workspaceJson = "projects"

\* C13 (as stated): in the enumeration of every built-in detector, a
\* candidate directory whose manifest cannot be read or parsed contributes no
\* PackageInfo and does not fail the call, and all other candidates are
\* returned as they are without it.
C13_BrokenCandidateContributesNothing ==
    (dpc = "done" /\ customDetectors = <<>>) =>
        \A k \in DOMAIN fs.members :
            fs.members[k] = "broken" =>
                /\ PackagesAt(k) = {}
                /\ DetectAll(WithoutManifest(fs, k), <<>>) = DetectEnded

\* C13 (amended): a candidate directory whose manifest cannot be read or
\* parsed never fails the call and leaves the other candidates as they are
\* without its manifest; it contributes no PackageInfo to an enumeration by
\* glob patterns (pnpm, yarn, npm, lerna, turbo, and nx's packages/ apps/
\* libs/ scan), while nx's enumeration of a projects map lists it once under
\* its map key, like a project without manifest.
C13_BrokenCandidateSkippedByGlob ==
    (dpc = "done" /\ customDetectors = <<>>) =>
        \A k \in DOMAIN fs.members :
            fs.members[k] = "broken" =>
                /\ DetectAll(WithoutManifest(fs, k), <<>>) = DetectEnded
                /\ ~FromProjectsMap => PackagesAt(k) = {}
                /\ FromProjectsMap =>
                      /\ Cardinality(PackagesAt(k)) = 1
                      /\ \A j \in PackagesAt(k) :
                            info.packages[j].name = ProjectNames[k]
\* npm workspaces over a broken first and a named second member directory:
\* the result holds the second member alone.
C13_Witness ==
    /\ DetectReturned
    /\ customDetectors = <<>>
    /\ info.type = "npm"
    /\ Len(fs.members) = 2
    /\ fs.members[1] = "broken" /\ fs.members[2] = "named"
    /\ info.packages = <<[name |-> MemberNames[2], path |-> MemberPaths[2]]>>

\* String.prototype.split(sep) of a text.
SplitOn(s, sep) ==
    LET seps == {k \in DOMAIN s : s[k] = sep}
        m == Cardinality(seps)
        at(n) == IF n = 0 THEN 0
                 ELSE IF n = m + 1 THEN Len(s) + 1
                 ELSE CHOOSE p \in seps : Cardinality({q \in seps : q <= p}) = n
    IN  [n \in 1..(m + 1) |-> SubSeq(s, at(n - 1) + 1, at(n) - 1)]
Has(s, ch) == \E k \in DOMAIN s : s[k] = ch

\* C14: the content written for N records, split on newline, has N + 1
\* lines; every line split on tab has 5 fields, none of which contains a
\* tab, a newline or a carriage return; the first line is the header id,
\* package_name, file_name, error_code, description and line k + 1 carries
\* the id and the error code of the k-th record.
C14_ReportRoundTrip ==
    tsvPc = "written" =>
        LET lines == SplitOn(tsvContent, Newline)
        IN  /\ Len(lines) = Len(tsvErrors) + 1
            /\ \A k \in DOMAIN lines :
                  LET fields == SplitOn(lines[k], Tab)
                  IN  /\ Len(fields) = 5
                      /\ \A n \in DOMAIN fields :
                            /\ ~Has(fields[n], Tab)
                            /\ ~Has(fields[n], Newline)
                            /\ ~Has(fields[n], Return)
                      /\ k = 1 =>
                            fields = << <<"id">>, <<"package_name">>, <<"file_name">>,
                                        <<"error_code">>, <<"description">> >>
                      /\ k > 1 =>
                            /\ fields[1] = NumberToString(tsvErrors[k - 1].id)
                            /\ fields[4] = NumberToString(tsvErrors[k - 1].errorCode)
\* MaxRecords records are written of which one description is a newline and
\* another file name a tab.
C14_Witness ==
    /\ tsvPc = "written"
    /\ Len(tsvErrors) = MaxRecords
    /\ \E k \in DOMAIN tsvErrors : Has(tsvErrors[k].description, Newline)
    /\ \E k \in DOMAIN tsvErrors : Has(tsvErrors[k].fileName, Tab)

\* C15: the command's process ends with code 130 whenever the run is ended
\* by an interruption (SIGINT delivered during detection, collection or
\* report writing, or collect rejecting with its interruption error), with
\* code 1 when any other failure escapes one of the three stages, and with
\* code 0 only when all three completed; once an interruption was observed
\* it ends with neither 0 nor 1.
C15_ExitCodes ==
    cliPc = "exited" =>
        /\ cliEnded = "sigint" => exitCode = 130
        /\ (cliEnded = "failure" /\ cliError = <<InterruptedByUser>>) => exitCode = 130
        /\ (cliEnded = "failure" /\ cliError # <<InterruptedByUser>>) => exitCode = 1
        /\ exitCode = 0 => cliEnded = "completed"
        /\ cliInterrupted => exitCode \notin {0, 1}

\* C16: whenever reading or parsing a unit's tsconfig.json reports errors
\* (one from ts.readConfigFile, n from ts.parseJsonConfigFileContent), the
\* unit contributes one record per reported error to the list an
\* uninterrupted run returns.
C16_ConfigErrorsAreRecords ==
    \A v \in Inv :
        (Returned(v) /\ sigAt[v] = 0) =>
            \A k \in DOMAIN Units(v) :
                LET u == Units(v)[k]
                    reported == CASE u.kind = "readError" -> 1
                                  [] u.kind = "configErrors" -> u.n
                                  [] OTHER -> 0
                    records == {j \in DOMAIN allErrors[v] :
                                   allErrors[v][j].packageName = u.name}
                IN  reported > 0 => Cardinality(records) = reported

\* The npm detector is the fourth the orchestrator asks when no custom
\* detector is passed: it has answered when four detect calls were made, and
\* its answer was true when the loop ended with it.
NpmAnswered ==
    /\ customDetectors = <<>>
    /\ Len(detectCalls) >= 4
    /\ detectCalls[4].detector.kind = "npm"
NpmAnsweredTrue == NpmAnswered /\ Len(detectCalls) = 4 /\ dpc = "done"

\* C17 (as stated): the npm detector's detect returns true exactly when the
\* root manifest is readable and its workspaces field is an array or an
\* object whose packages list is non-empty; an object with an empty or a
\* missing packages list is not detected.
C17_NpmDetectNonEmptyPackages ==
    NpmAnswered =>
        (NpmAnsweredTrue <=> fs.manifest \in {"wsArray", "wsArrayBad", "wsObject"})

\* C17 (amended): the npm detector's detect returns true exactly when the
\* root manifest is readable and its workspaces field is an array or an
\* object that has a packages list, empty or not; only an object without
\* packages (or no workspaces field at all) is not detected.
C17_NpmDetectAnyPackages ==
    NpmAnswered =>
        /\ NpmAnsweredTrue <=>
              fs.manifest \in {"wsArray", "wsArrayBad", "wsObject", "wsObjectEmpty"}
        /\ fs.manifest \in {"missing", "unreadable", "plain", "wsObjectBare"} =>
              ~NpmAnsweredTrue
\* A root whose manifest has workspaces {packages: []} is reported as an npm
\* monorepo without packages.
C17_Witness ==
    /\ NpmAnsweredTrue
    /\ fs.manifest = "wsObjectEmpty"
    /\ DetectReturned
    /\ info.isMonorepo /\ info.type = "npm" /\ info.packages = <<>>

\* The yarn detector is the third the orchestrator asks when no custom
\* detector is passed; it is asked only after turbo and pnpm returned false.
YarnAnswered ==
    /\ customDetectors = <<>>
    /\ Len(detectCalls) >= 3
    /\ detectCalls[3].detector.kind = "yarn"
YarnAnsweredTrue == YarnAnswered /\ Len(detectCalls) = 3 /\ dpc = "done"
WorkspacesCondition ==
    fs.manifest \in {"wsArray", "wsArrayBad", "wsObject", "wsObjectEmpty"}

\* C18: the yarn detector's detect is true exactly when the npm workspaces
\* condition holds and yarn.lock exists at the root; a root matching neither
\* turbo nor pnpm that has workspaces and a yarn.lock is reported with type
\* yarn, and type npm is reported only for roots without a yarn.lock.
C18_YarnBeforeNpm ==
    /\ YarnAnswered => (YarnAnsweredTrue <=> (WorkspacesCondition /\ fs.yarnLock))
    /\ (YarnAnswered /\ dpc = "done" /\ WorkspacesCondition /\ fs.yarnLock) =>
           (DetectReturned /\ info.isMonorepo /\ info.type = "yarn")
    /\ (DetectReturned /\ info.type = "npm") => ~fs.yarnLock

\* C19: in every normalized record line and column are both present or both
\* absent; they are present exactly when the raw diagnostic carries a source
\* file and a start offset, and then each is the checker's 0-based value plus
\* one, so at least 1: line - 1 is the index of the last line starting at or
\* before the offset and column - 1 the distance from that line's start;
\* otherwise both are absent and fileName is "unknown".
C19_LineAndColumn ==
    fmtPc = "done" =>
        /\ Len(formatted) = Len(diagnostics)
        /\ \A k \in DOMAIN formatted :
              LET e == formatted[k]
                  d == diagnostics[k]
                  located == d.file # <<>> /\ d.start # <<>>
              IN  /\ (e.line = <<>>) <=> (e.column = <<>>)
                  /\ (e.line # <<>>) <=> located
                  /\ located =>
                        LET starts == LineStarts(d.file[1])
                            line == e.line[1]
                            column == e.column[1]
                        IN  /\ line >= 1 /\ column >= 1
                            /\ line \in DOMAIN starts
                            /\ starts[line] + (column - 1) = d.start[1]
                            /\ (line + 1) \in DOMAIN starts => d.start[1] < starts[line + 1]
                  /\ ~located => e.fileName = <<"unknown">>
\* One call returned a record located on the second line of its file, beyond
\* the line's first character, and a record of a diagnostic without a file.
C19_Witness ==
    /\ fmtPc = "done"
    /\ \E k \in DOMAIN formatted :
          /\ diagnostics[k].file # <<>> /\ diagnostics[k].start # <<>>
          /\ formatted[k].line = <<2>> /\ formatted[k].column = <<2>>
    /\ \E k \in DOMAIN formatted :
          /\ diagnostics[k].file = <<>>
          /\ formatted[k].line = <<>> /\ formatted[k].fileName = <<"unknown">>

\* No invocation of collect is between its call and its end.
NoneRunning == \A v \in Inv : pc[v] \in {"idle", "done"}

\* C20: collect leaves the set of SIGINT listeners as it found it: the
\* listener it registers is removed on every exit path (return, interruption
\* error, exception of the progress callback), so whenever no invocation is
\* running none of the collector's listeners is registered, after any number
\* of invocations; and a SIGINT delivered then leaves the interruption flag
\* as it was.
C20_ListenerRemovedOnEveryExit ==
    /\ [](\A v \in Inv : v \in listeners <=> pc[v] \in {"yield", "awaitUnit"})
    /\ [][(NoneRunning /\ UNCHANGED pc) => interrupted' = interrupted]_vars
\* A second invocation has ended by the interruption error, after one ended
\* by the progress callback's exception, and no listener is registered.
C20_Witness ==
    /\ prev = "callbackError"
    /\ pc[1] = "done"
    /\ outcome[1] = "interrupted"
    /\ interrupted
    /\ listeners = {}

\* C21: the outcome of an interruption is uniform: an invocation during
\* which the interruption flag became set before the type-check of some unit
\* began ends by raising "Interrupted by user"; it never returns normally a
\* list from which a unit was left out because of the interruption.
C21_InterruptionIsUniform ==
    \A v \in Inv :
        /\ (pc[v] = "done" /\ sigAt[v] # 0) => outcome[v] = "interrupted"
        /\ Returned(v) =>
              \A k \in DOMAIN Units(v) :
                  FindTsConfig(Units(v)[k]) => Units(v)[k].name \in checked[v]

====
